---- MODULE Spec2Model ----
(***************************************************************************)
(* Node lifecycle and allocation handlers of the MAAS API                  *)
(* (src/src/maasserver/api.py): NodeHandler, AnonNodesHandler and          *)
(* NodesHandler working on the Node table.                                  *)
(*                                                                         *)
(* Spec     : one request at a time; every action is a whole handler, and   *)
(*            Reply hands its response over before the next request.        *)
(* SpecLinks: one request at a time, on a table of nodes with the MAC        *)
(*            addresses linked to them (NodeMacsHandler, NodeMacHandler,     *)
(*            is_registered) and the handlers that edit or list nodes.       *)
(* SpecSweep: one request at a time while the clock runs: the commissioning  *)
(*            sweep and the saves that refresh a row's `updated`.            *)
(* SpecSerial: as SpecConc, each worker serving one request after another.   *)
(* SpecConc : two requests served at once; the workers interleave at the    *)
(*            handlers' database accesses (the query that reads the row,    *)
(*            later the save of the row).                                   *)
(* SpecAccept: two accept requests served at once.                          *)
(* SpecFrame: the commissioning sweep on a table of nodes with links.       *)
(* SpecSweepFair: SpecSweep's clock and sweep under fairness, with updates   *)
(*            in between.                                                   *)
(* SpecStartUp, SpecStartUpFair: the region processes running start_up()    *)
(*            (src/src/maasserver/start_up.py).                             *)
(* SpecZones, SpecCache: a Service of the service layer                     *)
(*            (src/src/maasservicelayer/services/_base.py): its etag check   *)
(*            and its cache decorator.                                      *)
(***************************************************************************)
EXTENDS Integers, FiniteSets, Sequences, Bags, TLC

\* ------------------------------------------------------------------ bounds
\* system_ids are 1..MaxNodes.
MaxNodes == 2

\* MAC addresses are 1..MaxMacs.
MaxMacs == 2

\* SpecSweep: the clock runs from 0 to MaxTime.
MaxTime == 2

\* SpecStartUp: at most MaxFailures attempts of start_up() fail with an
\* exception the loop catches; after that the failures have stopped.
MaxFailures == 2

\* settings.COMMISSIONING_TIMEOUT, in clock ticks.
COMMISSIONING_TIMEOUT == 1

Ids == 1..MaxNodes
\* An id no node ever has: a request may name it.
UnknownId == MaxNodes + 1
RequestIds == Ids \cup {UnknownId}
Macs == 1..MaxMacs
\* A string validate_mac rejects.
BadMac == MaxMacs + 1
NoMac == MaxMacs + 2
MacInputs == Macs \cup {BadMac}
Users == {"admin", "alice"}
Workers == {"w1", "w2"}
NoOwner == "none"
NoName == "none"

\* NODE_STATUS
DECLARED == "Declared"
COMMISSIONING == "Commissioning"
FAILED_TESTS == "FailedTests"
READY == "Ready"
ALLOCATED == "Allocated"
RESERVED == "Reserved"
RETIRED == "Retired"
NODE_STATUS == {DECLARED, COMMISSIONING, FAILED_TESTS, READY, ALLOCATED,
                RESERVED, RETIRED}
OwnedStatus == {ALLOCATED, RESERVED}

\* The hostname submitted for the machine that gets system_id i.
HostnameOf(i) == IF i = 1 THEN "h1" ELSE "h2"
Hostnames == {HostnameOf(i) : i \in Ids}
Names == Hostnames \cup {NoName}

VARIABLES
    nodes,    \* the Node table: system_id -> row, for the rows that exist
    now,      \* the clock datetime.now() reads
    last,     \* Spec: the request served last and its response
    prev,     \* Spec: the Node table as that request found it
    calls,    \* SpecConc: each worker's request and how far it has got
    macs,     \* the MACAddress table: the bag of its rows (the links)
    prevMacs, \* the MACAddress table as the request served last found it
    sent,     \* the requests it handed to the power-control collaborator
    boot,     \* SpecStartUp: the region processes in start_up()
    svc       \* SpecService: a service, its resources and its cache

vars == <<nodes, now, last, prev, calls, macs, prevMacs, sent, boot, svc>>

\* The variables of the node API.
apiVars == <<nodes, now, last, prev, calls, macs, prevMacs, sent>>

\* ------------------------------------------------------------- the table
NodeRec(st, ow, hn, up) ==
    [status |-> st, owner |-> ow, hostname |-> hn, updated |-> up]

Exists(store, i) == i \in DOMAIN store

\* Model.save(): writes the whole row and refreshes `updated`; a row that
\* is not in the table is inserted.
Save(store, i, row, t) ==
    [j \in DOMAIN store \cup {i} |->
        IF j = i THEN [row EXCEPT !.updated = t] ELSE store[j]]

\* Model.delete()
Remove(store, i) == [j \in DOMAIN store \ {i} |-> store[j]]

\* A row of the MACAddress table.
Link(mac, i) == [mac |-> mac, node |-> i]

\* The links that stay when node i is deleted: MACAddress.node is a foreign
\* key, the node's links go with it.
LinksOff(links, i) ==
    [l \in {m \in BagToSet(links) : m.node # i} |-> links[l]]

\* ---------------------------------------------------------- the response
\* op, its parameters (user, id, ids, name), what the authorization
\* collaborator hid from the call (hidden), the outcome (result), the ids
\* returned or named in the error (ret) and the status an error shows (msg).
Resp(op, u, i, ids, name, hidden, result, ret, msg) ==
    [op |-> op, user |-> u, id |-> i, ids |-> ids, name |-> name,
     hidden |-> hidden, result |-> result, ret |-> ret, msg |-> msg,
     mac |-> NoMac]

NoResp == Resp("none", NoOwner, UnknownId, {}, NoName, {}, "ok", {}, "")

\* No request is being served.
Idle == last = NoResp

\* Node.objects.get_node_or_404(system_id, user, perm): the row, or the
\* error of an unknown id or of a missing permission.
Resolve(store, i, permitted) ==
    IF ~Exists(store, i) THEN "NotFound"
    ELSE IF ~permitted THEN "PermissionDenied"
    ELSE "ok"

\* ---------------------------------------------------------------- release
\* (mutant) release() that forgets the owner.
ReleaseNode_KeepsOwner(row) == [row EXCEPT !.status = READY]

\* Node.release(): clears the owner and makes the node Ready.
ReleaseNode(row) == [row EXCEPT !.status = READY, !.owner = NoOwner]

\* (mutant) no branch for the redundant retry.
ReleaseBranch_NoRetry(row) ==
    IF row.status \in {ALLOCATED, RESERVED} THEN "release" ELSE "violation"

\* (mutant) only an Allocated node is released.
ReleaseBranch_AllocatedOnly(row) ==
    IF row.status = READY THEN "nothing"
    ELSE IF row.status = ALLOCATED THEN "release"
    ELSE "violation"

\* (mutant) every node that is not Ready is released.
ReleaseBranch_AnyState(row) ==
    IF row.status = READY THEN "nothing" ELSE "release"

\* (mutant) a Retired node is released as well.
ReleaseBranch_Retired(row) ==
    IF row.status = READY THEN "nothing"
    ELSE IF row.status \in {ALLOCATED, RESERVED, RETIRED} THEN "release"
    ELSE "violation"

\* The branches of NodeHandler.release on the row it fetched.
ReleaseBranch(row) ==
    IF row.status = READY THEN "nothing"
    ELSE IF row.status \in {ALLOCATED, RESERVED} THEN "release"
    ELSE "violation"

Release(i) ==
    /\ Idle
    /\ \E permitted \in BOOLEAN :
        LET found == Resolve(nodes, i, permitted) IN
        /\ IF found # "ok"
           THEN /\ nodes' = nodes
                /\ last' = Resp("release", NoOwner, i, {}, NoName, {},
                                found, {}, "")
           ELSE IF ReleaseBranch(nodes[i]) = "nothing"
           THEN /\ nodes' = nodes
                /\ last' = Resp("release", NoOwner, i, {}, NoName, {},
                                "ok", {i}, "")
           ELSE IF ReleaseBranch(nodes[i]) = "release"
           THEN /\ nodes' = Save(nodes, i, ReleaseNode(nodes[i]), now)
                /\ last' = Resp("release", NoOwner, i, {}, NoName, {},
                                "ok", {i}, "")
           ELSE /\ nodes' = nodes
                /\ last' = Resp("release", NoOwner, i, {}, NoName, {},
                                "NodeStateViolation", {}, nodes[i].status)
        /\ prev' = nodes
        /\ prevMacs' = macs
        /\ sent' = {}
        /\ UNCHANGED <<now, calls, macs, boot, svc>>

\* ---------------------------------------------------------------- acquire
\* (mutant) the name parameter is dropped: no constraint is extracted.
MatchesConstraints_Dropped(row, name) == TRUE

\* (mutant) a request without a name gets the constraint name = None.
MatchesConstraints_NoneName(row, name) == row.hostname = name

\* extract_constraints: the name constraint, when the request gives one.
MatchesConstraints(row, name) == name = NoName \/ row.hostname = name

\* (mutant) every row without owner is taken for available.
Available_Unowned(store, name) ==
    {i \in DOMAIN store :
        /\ store[i].owner = NoOwner
        /\ MatchesConstraints(store[i], name)}

\* The Ready rows that match the constraints.
Available(store, name) ==
    {i \in DOMAIN store :
        /\ store[i].status = READY
        /\ MatchesConstraints(store[i], name)}

\* get_available_node_for_acquisition: those of them the requester may see.
Candidates(store, hidden, name) == Available(store, name) \ hidden

\* Node.acquire(user, token)
AcquireNode(row, u) == [row EXCEPT !.status = ALLOCATED, !.owner = u]

Acquire(u, name) ==
    /\ Idle
    /\ \E hidden \in SUBSET Available(nodes, name), tokenOk \in BOOLEAN :
        LET cands == Candidates(nodes, hidden, name) IN
        /\ IF cands = {}
           THEN /\ nodes' = nodes
                /\ last' = Resp("acquire", u, UnknownId, {}, name, hidden,
                                "NodesNotAvailable", {}, "")
           ELSE \E i \in cands :
                IF tokenOk
                THEN /\ nodes' = Save(nodes, i, AcquireNode(nodes[i], u), now)
                     /\ last' = Resp("acquire", u, i, {}, name, hidden,
                                     "ok", {i}, "")
                ELSE /\ nodes' = nodes
                     /\ last' = Resp("acquire", u, i, {}, name, hidden,
                                     "Unauthorized", {}, "")
        /\ prev' = nodes
        /\ prevMacs' = macs
        /\ sent' = {}
        /\ UNCHANGED <<now, calls, macs, boot, svc>>

\* ----------------------------------------------------------------- accept
\* Node.accept_enlistment(user): a Declared node becomes Ready and is
\* returned; an already accepted node is left alone and None is returned;
\* any other status is an error.
AcceptChanges(row) == row.status = DECLARED
AcceptRaises(row) == row.status \notin {DECLARED, READY}
AcceptNode(row) == [row EXCEPT !.status = READY]

\* accept_enlistment on each row of S that it changes.
AcceptEach(store, S, t) ==
    [j \in DOMAIN store |->
        IF j \in S /\ AcceptChanges(store[j])
        THEN [AcceptNode(store[j]) EXCEPT !.updated = t]
        ELSE store[j]]

\* "Check the existence of these nodes first."
AcceptUnknownCheck(existing_ids, system_ids) ==
    Cardinality(existing_ids) < Cardinality(system_ids)

\* (mutant) <= for <.
AcceptDeniedCheck_Le(ids, system_ids) ==
    Cardinality(ids) <= Cardinality(system_ids)

\* (mutant) denied only when the user may administer none of the batch.
AcceptDeniedCheck_None(ids, system_ids) == ids = {} /\ system_ids # {}

\* "Make sure that the user has the required permission."
AcceptDeniedCheck(ids, system_ids) ==
    Cardinality(ids) < Cardinality(system_ids)

Accept(system_ids) ==
    LET existing_ids == DOMAIN nodes IN
    /\ Idle
    /\ IF AcceptUnknownCheck(existing_ids, system_ids)
       THEN /\ nodes' = nodes
            /\ last' = Resp("accept", NoOwner, UnknownId, system_ids, NoName,
                            {}, "MAASAPIBadRequest",
                            system_ids \ existing_ids, "")
       ELSE \E denied \in SUBSET (system_ids \cap existing_ids) :
            \* get_nodes(user, perm=ADMIN, ids=system_ids)
            LET ids == (system_ids \cap existing_ids) \ denied
                raising == {i \in ids : AcceptRaises(nodes[i])}
                declared == {i \in ids : AcceptChanges(nodes[i])}
            IN
            IF AcceptDeniedCheck(ids, system_ids)
            THEN /\ nodes' = nodes
                 /\ last' = Resp("accept", NoOwner, UnknownId, system_ids,
                                 NoName, denied, "PermissionDenied",
                                 system_ids \ ids, "")
            ELSE IF raising = {}
            THEN /\ nodes' = AcceptEach(nodes, ids, now)
                 /\ last' = Resp("accept", NoOwner, UnknownId, system_ids,
                                 NoName, denied, "ok", declared, "")
            ELSE \* the rows are accepted one by one, in the order the query
                 \* gives them: those before the first raising one are saved
                 \E x \in raising, before \in SUBSET declared :
                     /\ nodes' = AcceptEach(nodes, before, now)
                     /\ last' = Resp("accept", NoOwner, x, system_ids,
                                     NoName, denied, "NodeStateViolation",
                                     {}, nodes[x].status)
    /\ prev' = nodes
    /\ prevMacs' = macs
    /\ sent' = {}
    /\ UNCHANGED <<now, calls, macs, boot, svc>>

\* -------------------------------------------------------------------- new
\* create_node: the form saves a Declared row under a new system_id.
CreateNode(i) == NodeRec(DECLARED, NoOwner, HostnameOf(i), 0)

\* (mutant) every logged-in user's node is accepted at once.
IsSuperuser_Any(u) == TRUE

\* request.user.is_superuser
IsSuperuser(u) == u = "admin"

\* NodesHandler.new
New(u) ==
    /\ Idle
    /\ \E valid \in BOOLEAN :
        /\ IF ~valid
           THEN /\ nodes' = nodes
                /\ last' = Resp("new", u, UnknownId, {}, NoName, {},
                                "ValidationError", {}, "")
           ELSE \E i \in Ids \ DOMAIN nodes :
                /\ nodes' = IF IsSuperuser(u)
                            THEN AcceptEach(Save(nodes, i, CreateNode(i), now),
                                            {i}, now)
                            ELSE Save(nodes, i, CreateNode(i), now)
                /\ last' = Resp("new", u, i, {}, NoName, {}, "ok", {i}, "")
        /\ prev' = nodes
        /\ prevMacs' = macs
        /\ sent' = {}
        /\ UNCHANGED <<now, calls, macs, boot, svc>>

\* AnonNodesHandler.new
AnonNew ==
    /\ Idle
    /\ \E valid \in BOOLEAN :
        /\ IF ~valid
           THEN /\ nodes' = nodes
                /\ last' = Resp("anon_new", NoOwner, UnknownId, {}, NoName,
                                {}, "ValidationError", {}, "")
           ELSE \E i \in Ids \ DOMAIN nodes :
                /\ nodes' = Save(nodes, i, CreateNode(i), now)
                /\ last' = Resp("anon_new", NoOwner, i, {}, NoName, {},
                                "ok", {i}, "")
        /\ prev' = nodes
        /\ prevMacs' = macs
        /\ sent' = {}
        /\ UNCHANGED <<now, calls, macs, boot, svc>>

\* ----------------------------------------------------------------- delete
\* NodeHandler.delete
Delete(i) ==
    /\ Idle
    /\ \E permitted \in BOOLEAN :
        LET found == Resolve(nodes, i, permitted) IN
        /\ nodes' = IF found = "ok" THEN Remove(nodes, i) ELSE nodes
        /\ macs' = IF found = "ok" THEN LinksOff(macs, i) ELSE macs
        /\ last' = Resp("delete", NoOwner, i, {}, NoName, {}, found,
                        IF found = "ok" THEN {i} ELSE {}, "")
        /\ prev' = nodes
        /\ prevMacs' = macs
        /\ sent' = {}
        /\ UNCHANGED <<now, calls, boot, svc>>

\* ------------------------------------------------------------ start, stop
\* Node.objects.start_nodes / stop_nodes([system_id], user): the nodes among
\* them the user may edit, each handed to the power collaborator.
PowerNodes(store, i, permitted) ==
    IF Exists(store, i) /\ permitted THEN {i} ELSE {}

\* A request to the power-control collaborator.
PowerRequest(op, i) == [op |-> op, node |-> i]

\* (mutant) no check of what start_nodes / stop_nodes returned.
PowerDenied_Never(started) == FALSE

\* len(nodes) == 0
PowerDenied(started) == Cardinality(started) = 0

\* NodeHandler.start, NodeHandler.stop: the handler returns when start_nodes
\* / stop_nodes has; what the collaborator does with the request comes later
\* and is no step of the handler.
Power(op, i) ==
    /\ Idle
    /\ \E permitted \in BOOLEAN :
        LET started == PowerNodes(nodes, i, permitted) IN
        /\ nodes' = nodes
        /\ sent' = {PowerRequest(op, j) : j \in started}
        /\ last' = Resp(op, NoOwner, i, {}, NoName,
                        IF permitted THEN {} ELSE {i},
                        IF PowerDenied(started)
                        THEN "PermissionDenied" ELSE "ok",
                        started, "")
        /\ prev' = nodes
        /\ prevMacs' = macs
        /\ UNCHANGED <<now, calls, macs, boot, svc>>

Start(i) == Power("start", i)
Stop(i) == Power("stop", i)

\* ---------------------------------------------------- check_commissioning
\* (mutant) updated__lt for updated__lte.
TimedOut_Lt(store, cutoff) ==
    {i \in DOMAIN store :
        /\ store[i].status = COMMISSIONING
        /\ store[i].updated < cutoff}

\* (mutant) a filter on the wrong status.
TimedOut_Declared(store, cutoff) ==
    {i \in DOMAIN store :
        /\ store[i].status = DECLARED
        /\ store[i].updated <= cutoff}

\* Node.objects.filter(status=COMMISSIONING, updated__lte=cutoff)
TimedOut(store, cutoff) ==
    {i \in DOMAIN store :
        /\ store[i].status = COMMISSIONING
        /\ store[i].updated <= cutoff}

\* (mutant) a sweep that saves the rows one by one, at clock reading t.
SweepUpdate_Save(row, t) ==
    [row EXCEPT !.status = FAILED_TESTS, !.updated = t]

\* query.update(status=FAILED_TESTS) on a row at clock reading t: no
\* save(), `updated` stays.
SweepUpdate(row, t) == [row EXCEPT !.status = FAILED_TESTS]

\* AnonNodesHandler.check_commissioning
CheckCommissioning ==
    LET cutoff == now - COMMISSIONING_TIMEOUT
        query == TimedOut(nodes, cutoff)
    IN
    /\ Idle
    /\ nodes' = [j \in DOMAIN nodes |->
                    IF j \in query
                    THEN SweepUpdate(nodes[j], now)
                    ELSE nodes[j]]
    /\ last' = Resp("check_commissioning", NoOwner, UnknownId, {}, NoName,
                    {}, "ok", query, "")
    /\ prev' = nodes
    /\ prevMacs' = macs
    /\ sent' = {}
    /\ UNCHANGED <<now, calls, macs, boot, svc>>

\* ----------------------------------------------------------------- update
\* (mutant) an edit form that has the status among its fields.
EditNode_Status(row, hostname) ==
    [row EXCEPT !.hostname = hostname, !.status = DECLARED]

\* The form of get_node_edit_form: it writes the attributes it was given
\* (here the hostname) on the row.
EditNode(row, hostname) == [row EXCEPT !.hostname = hostname]

\* NodeHandler.update
Update(i, hostname) ==
    /\ Idle
    /\ \E permitted \in BOOLEAN, valid \in BOOLEAN :
        LET found == Resolve(nodes, i, permitted) IN
        /\ IF found # "ok"
           THEN /\ nodes' = nodes
                /\ last' = Resp("update", NoOwner, i, {}, hostname, {},
                                found, {}, "")
           ELSE IF ~valid
           THEN /\ nodes' = nodes
                /\ last' = Resp("update", NoOwner, i, {}, hostname, {},
                                "ValidationError", {}, "")
           ELSE /\ nodes' = Save(nodes, i, EditNode(nodes[i], hostname), now)
                /\ last' = Resp("update", NoOwner, i, {}, hostname, {},
                                "ok", {i}, "")
        /\ prev' = nodes
        /\ prevMacs' = macs
        /\ sent' = {}
        /\ UNCHANGED <<now, calls, macs, boot, svc>>

\* ------------------------------------------------------------------- list
\* The id parameter of list: one id, or none given (every node matches).
MatchLists == {{i} : i \in RequestIds} \cup {RequestIds}

\* NodesHandler.list: the nodes among match_ids the user may view.
List(match_ids) ==
    /\ Idle
    /\ \E hidden \in SUBSET (match_ids \cap DOMAIN nodes) :
        /\ last' = Resp("list", NoOwner, UnknownId, match_ids, NoName,
                        hidden, "ok", (match_ids \cap DOMAIN nodes) \ hidden,
                        "")
        /\ prev' = nodes
        /\ prevMacs' = macs
        /\ sent' = {}
        /\ UNCHANGED <<nodes, now, calls, macs, boot, svc>>

\* ---------------------------------------------------------- MAC addresses
\* validate_mac
ValidMac(mac) == mac \in Macs

\* The links that carry the address.
LinksWith(links, mac) == {l \in BagToSet(links) : l.mac = mac}

\* MACAddress.mac_address is unique: validation refuses an address that a
\* link carries already, on whichever node.
MacTaken(links, mac) == LinksWith(links, mac) # {}

\* The response of a MAC handler.
MacResp(op, i, mac, result, ret) ==
    [Resp(op, NoOwner, i, {}, NoName, {}, result, ret, "")
        EXCEPT !.mac = mac]

\* NodeMacsHandler.create
AddMac(i, mac) ==
    /\ Idle
    /\ \E permitted \in BOOLEAN :
        LET found == Resolve(nodes, i, permitted) IN
        /\ IF found # "ok"
           THEN /\ macs' = macs
                /\ last' = MacResp("add_mac", i, mac, found, {})
           ELSE IF ~ValidMac(mac) \/ MacTaken(macs, mac)
           THEN /\ macs' = macs
                /\ last' = MacResp("add_mac", i, mac, "ValidationError", {})
           ELSE /\ macs' = macs (+) SetToBag({Link(mac, i)})
                /\ last' = MacResp("add_mac", i, mac, "ok", {i})
        /\ prev' = nodes
        /\ prevMacs' = macs
        /\ sent' = {}
        /\ UNCHANGED <<nodes, now, calls, boot, svc>>

\* get_object_or_404(MACAddress, node=node, mac_address=mac_address)
\* finds the one row, no row (Http404) or more than one.
LinksOn(links, i, mac) == CopiesIn(Link(mac, i), links)

\* mac.delete()
Unlink(links, l) == links (-) SetToBag({l})

\* NodeMacHandler.delete
RemoveMac(i, mac) ==
    /\ Idle
    /\ \E permitted \in BOOLEAN :
        LET found == Resolve(nodes, i, permitted) IN
        /\ IF ~ValidMac(mac)
           THEN /\ macs' = macs
                /\ last' = MacResp("remove_mac", i, mac, "ValidationError",
                                   {})
           ELSE IF found # "ok"
           THEN /\ macs' = macs
                /\ last' = MacResp("remove_mac", i, mac, found, {})
           ELSE IF LinksOn(macs, i, mac) = 0
           THEN /\ macs' = macs
                /\ last' = MacResp("remove_mac", i, mac, "NotFound", {})
           ELSE IF LinksOn(macs, i, mac) > 1
           THEN /\ macs' = macs
                /\ last' = MacResp("remove_mac", i, mac,
                                   "MultipleObjectsReturned", {})
           ELSE /\ macs' = Unlink(macs, Link(mac, i))
                /\ last' = MacResp("remove_mac", i, mac, "ok", {i})
        /\ prev' = nodes
        /\ prevMacs' = macs
        /\ sent' = {}
        /\ UNCHANGED <<nodes, now, calls, boot, svc>>

\* (mutant) without the exclude().
Registered_NoExclude(store, links, mac) == LinksWith(links, mac) # {}

\* MACAddress.objects.filter(mac_address=mac_address)
\*     .exclude(node__status=RETIRED).exists()
Registered(store, links, mac) ==
    \E l \in LinksWith(links, mac) : store[l.node].status # RETIRED

\* AnonNodesHandler.is_registered
IsRegistered(mac) ==
    /\ Idle
    /\ last' = MacResp("is_registered", UnknownId, mac,
                       IF Registered(nodes, macs, mac) THEN "true" ELSE "false",
                       {})
    /\ prev' = nodes
    /\ prevMacs' = macs
    /\ sent' = {}
    /\ UNCHANGED <<nodes, now, calls, macs, boot, svc>>

\* ------------------------------------------------------------------ reply
\* The response goes out; the next request finds the table as it is now.
Reply ==
    /\ ~Idle
    /\ last' = NoResp
    /\ prev' = nodes
    /\ prevMacs' = macs
    /\ sent' = {}
    /\ UNCHANGED <<nodes, now, calls, macs, boot, svc>>

\* ------------------------------------------------- two requests at once
\* A worker's request: its handler (op) and parameters, what the
\* authorization collaborator hid from it (hidden), the row its query
\* fetched (id, row), where the handler stands (pc) and, once pc = "done",
\* its outcome (result).
Call(op, u, i, name, hidden, row, pc, result) ==
    [op |-> op, user |-> u, id |-> i, name |-> name, hidden |-> hidden,
     row |-> row, pc |-> pc, result |-> result]

NoRow == NodeRec("none", NoOwner, NoName, 0)
NoCall == Call("none", NoOwner, UnknownId, NoName, {}, NoRow, "idle", "")

\* NodesHandler.acquire up to the return of
\* get_available_node_for_acquisition and of get_oauth_token.
AcquireRead(w, u, name) ==
    /\ calls[w].pc = "idle"
    /\ \E hidden \in SUBSET Available(nodes, name), tokenOk \in BOOLEAN :
        LET cands == Candidates(nodes, hidden, name) IN
        IF cands = {}
        THEN calls' = [calls EXCEPT ![w] =
                 Call("acquire", u, UnknownId, name, hidden, NoRow, "done",
                      "NodesNotAvailable")]
        ELSE \E i \in cands :
             calls' = [calls EXCEPT ![w] =
                 IF tokenOk
                 THEN Call("acquire", u, i, name, hidden, nodes[i],
                           "acquire_save", "")
                 ELSE Call("acquire", u, i, name, hidden, nodes[i], "done",
                           "Unauthorized")]
    /\ UNCHANGED <<nodes, now, last, prev, macs, prevMacs, sent, boot, svc>>

\* node.acquire(...) on the fetched row, and the return of the node.
AcquireSave(w) ==
    /\ calls[w].pc = "acquire_save"
    /\ nodes' = Save(nodes, calls[w].id,
                     AcquireNode(calls[w].row, calls[w].user), now)
    /\ calls' = [calls EXCEPT ![w].pc = "done", ![w].result = "ok"]
    /\ UNCHANGED <<now, last, prev, macs, prevMacs, sent, boot, svc>>

\* NodeHandler.release up to the branch on the fetched row's status.
ReleaseRead(w, i) ==
    /\ calls[w].pc = "idle"
    /\ \E permitted \in BOOLEAN :
        LET found == Resolve(nodes, i, permitted) IN
        calls' = [calls EXCEPT ![w] =
            IF found # "ok"
            THEN Call("release", NoOwner, i, NoName, {}, NoRow, "done", found)
            ELSE IF ReleaseBranch(nodes[i]) = "nothing"
            THEN Call("release", NoOwner, i, NoName, {}, nodes[i], "done",
                      "ok")
            ELSE IF ReleaseBranch(nodes[i]) = "release"
            THEN Call("release", NoOwner, i, NoName, {}, nodes[i],
                      "release_save", "")
            ELSE Call("release", NoOwner, i, NoName, {}, nodes[i], "done",
                      "NodeStateViolation")]
    /\ UNCHANGED <<nodes, now, last, prev, macs, prevMacs, sent, boot, svc>>

\* node.release() on the fetched row, and the return of the node.
ReleaseSave(w) ==
    /\ calls[w].pc = "release_save"
    /\ nodes' = Save(nodes, calls[w].id, ReleaseNode(calls[w].row), now)
    /\ calls' = [calls EXCEPT ![w].pc = "done", ![w].result = "ok"]
    /\ UNCHANGED <<now, last, prev, macs, prevMacs, sent, boot, svc>>

\* ---------------------------------------------------------------- start-up
\* start_up.py: every region process runs start_up(); "p1" is the master
\* process (is_master_process()).
Procs == {"p1", "p2"}
NoProc == "none"
IsMaster(p) == p = "p1"

\* pause(3.0): the seconds a failed attempt waits before the next one.
PauseSeconds == 3

\* What a call made by the loop can raise.
Interrupts == {"SystemExit", "KeyboardInterrupt"}
Caught == {"DatabaseError", "Exception"}
Exceptions == Interrupts \cup Caught

\* The calls of one loop iteration, and the statements of inner_start_up.
LoopCalls == {"get_shared_secret", "inner_start_up"}
InnerPcs == {"register_mac_type", "create_gnupg_home",
             "ensure_boot_source_definition", "dns_kms_setting_changed"}

\* Each process: where it stands (pc), the seconds its pause has left
\* (wait), the calls that completed in its current loop iteration (done),
\* the exception its last failed attempt raised (exc). lock is the holder
\* of locks.startup, failures counts the attempts that failed so far.
BootInit ==
    [pc |-> [p \in Procs |-> "loop"],
     wait |-> [p \in Procs |-> 0],
     done |-> [p \in Procs |-> {}],
     exc |-> [p \in Procs |-> "none"],
     lock |-> NoProc,
     failures |-> 0]

\* (mutant) a lock that never makes anybody wait.
LockFree_Always(lock) == TRUE

\* synchronised(locks.startup): the lock can be taken when nobody holds it.
LockFree(lock) == lock = NoProc

\* (mutant) a loop that takes every exception for a success.
Handler_Swallow(e) == IF e \in Interrupts THEN "exited" ELSE "returned"

\* The except clauses of the loop: SystemExit and KeyboardInterrupt are
\* raised again, everything else is logged and followed by a pause.
Handler(e) == IF e \in Interrupts THEN "exited" ELSE "pause"

\* A call of process p raises e: the lock is released if p holds it, and
\* the except clause for e runs.
Raise(p, e) ==
    /\ e \in Caught => boot.failures < MaxFailures
    /\ boot' = [boot EXCEPT
           !.pc[p] = Handler(e),
           !.wait[p] = IF e \in Caught THEN PauseSeconds ELSE 0,
           !.exc[p] = e,
           !.lock = IF boot.lock = p THEN NoProc ELSE boot.lock,
           !.failures = IF e \in Caught THEN @ + 1 ELSE @]

\* yield security.get_shared_secret()
GetSharedSecret(p) ==
    /\ boot.pc[p] = "loop"
    /\ \/ boot' = [boot EXCEPT !.pc[p] = "inner_start_up",
                                !.done[p] = {"get_shared_secret"}]
       \/ \E e \in Exceptions : Raise(p, e)
    /\ UNCHANGED <<apiVars, svc>>

\* yield deferToDatabase(inner_start_up), up to the body: with_connection
\* opens the connection and synchronised takes the lock, waiting for it.
EnterInner(p) ==
    /\ boot.pc[p] = "inner_start_up"
    /\ \/ /\ LockFree(boot.lock)
          /\ boot' = [boot EXCEPT !.pc[p] = "register_mac_type",
                                   !.lock = p]
       \/ \E e \in Exceptions : Raise(p, e)
    /\ UNCHANGED <<apiVars, svc>>

\* The statement after `pc` in inner_start_up; "return" after the last.
AfterInner(p, pc) ==
    IF pc = "register_mac_type"
    THEN IF IsMaster(p) THEN "create_gnupg_home" ELSE "return"
    ELSE IF pc = "create_gnupg_home" THEN "ensure_boot_source_definition"
    ELSE IF pc = "ensure_boot_source_definition"
    THEN "dns_kms_setting_changed"
    ELSE "return"

\* One statement of inner_start_up. After the last one the lock is
\* released, and the loop's else clause breaks: start_up() returns.
InnerStep(p) ==
    /\ boot.pc[p] \in InnerPcs
    /\ \/ LET to == AfterInner(p, boot.pc[p]) IN
          IF to = "return"
          THEN boot' = [boot EXCEPT
                   !.pc[p] = "returned",
                   !.done[p] = @ \cup {"inner_start_up"},
                   !.lock = NoProc]
          ELSE boot' = [boot EXCEPT !.pc[p] = to]
       \/ \E e \in Exceptions : Raise(p, e)
    /\ UNCHANGED <<apiVars, svc>>

\* A second of pause(3.0) goes by.
PauseTick(p) ==
    /\ boot.pc[p] = "pause"
    /\ boot.wait[p] > 0
    /\ boot' = [boot EXCEPT !.wait[p] = @ - 1]
    /\ UNCHANGED <<apiVars, svc>>

\* The pause is over: the loop starts its next iteration.
Retry(p) ==
    /\ boot.pc[p] = "pause"
    /\ boot.wait[p] = 0
    /\ boot' = [boot EXCEPT !.pc[p] = "loop", !.done[p] = {}]
    /\ UNCHANGED <<apiVars, svc>>

\* ----------------------------------------------------------- service layer
\* services/_base.py: a Service over a table of resources (the zones of
\* ZonesService), each with the etag its model computes, and the cache the
\* service was built with.
ZoneIds == {"z1", "z2"}
Etags == {"e1", "e2"}
Attrs == {"a1", "a2"}
Values == {"v1", "v2"}
Args == {"x", "y"}
Tasks == {"t1", "t2"}
None == "None"

\* (mutant) a check that takes a missing If-Match for a wrong one.
EtagCheck_NoneFails(etag, etag_if_match) ==
    IF etag # etag_if_match THEN "PreconditionFailedException" ELSE "ok"

\* Service.etag_check(model, etag_if_match), etag being model.etag().
EtagCheck(etag, etag_if_match) ==
    IF etag_if_match # None /\ etag # etag_if_match
    THEN "PreconditionFailedException"
    ELSE "ok"

\* A request to the service and its outcome.
ZoneReq(op, id, etag_if_match, result) ==
    [op |-> op, id |-> id, etag_if_match |-> etag_if_match,
     result |-> result]

\* A task's call of a cached method: the attribute and the argument, the
\* branch of `wrapped` it took (pc) and, as they were when it was made, the
\* first value of the method (before) and its settled value (settled).
Task(pc, attr, arg, before, settled) ==
    [pc |-> pc, attr |-> attr, arg |-> arg, before |-> before,
     settled |-> settled]

NoTask == Task("idle", None, None, None, None)

\* A call that has returned: whether it executed the body, and its value.
Returned(op, t, call, executed, value) ==
    [op |-> op, task |-> t, attr |-> call.attr, arg |-> call.arg,
     before |-> call.before, settled |-> call.settled,
     executed |-> executed, value |-> value]

NoReturn == Returned("none", None, NoTask, FALSE, None)

\* zones: id -> etag of the resources; req, prevZones: the request served
\* last and the table as it found it. hasCache: Service.cache is not None;
\* cache: the attributes of the ServiceCache; tasks: the calls in flight;
\* ret: the call that returned last; first: per attribute, the first
\* non-None value a call returned since the cache was cleared; settled:
\* per attribute, the non-None value a call returned since then while no
\* other call of the method was awaiting its body.
Svc(zones, hasCache) ==
    [zones |-> zones, prevZones |-> zones,
     req |-> ZoneReq("none", None, None, "ok"),
     hasCache |-> hasCache,
     cache |-> [a \in Attrs |-> None],
     tasks |-> [t \in Tasks |-> NoTask],
     ret |-> NoReturn,
     first |-> [a \in Attrs |-> None],
     settled |-> [a \in Attrs |-> None]]

NoSvc == Svc([z \in {} |-> None], FALSE)

\* ZonesService.delete(id, etag_if_match): the resource is fetched, its
\* etag checked, and the resource deleted.
ZoneDelete(id, etag_if_match) ==
    /\ svc' = [svc EXCEPT
           !.prevZones = svc.zones,
           !.req = ZoneReq("delete", id, etag_if_match,
                       IF id \notin DOMAIN svc.zones THEN "NotFound"
                       ELSE EtagCheck(svc.zones[id], etag_if_match)),
           !.zones = IF /\ id \in DOMAIN svc.zones
                        /\ EtagCheck(svc.zones[id], etag_if_match) = "ok"
                     THEN [z \in DOMAIN svc.zones \ {id} |-> svc.zones[z]]
                     ELSE svc.zones]
    /\ UNCHANGED <<apiVars, boot>>

\* An update guarded by the etag: the resource is fetched, its etag
\* checked, and the resource saved, which gives it another etag.
ZoneUpdate(id, etag_if_match) ==
    /\ \E etag \in Etags :
        /\ id \in DOMAIN svc.zones => etag # svc.zones[id]
        /\ svc' = [svc EXCEPT
               !.prevZones = svc.zones,
               !.req = ZoneReq("update", id, etag_if_match,
                           IF id \notin DOMAIN svc.zones THEN "NotFound"
                           ELSE EtagCheck(svc.zones[id], etag_if_match)),
               !.zones = IF /\ id \in DOMAIN svc.zones
                            /\ EtagCheck(svc.zones[id], etag_if_match)
                                   = "ok"
                         THEN [svc.zones EXCEPT ![id] = etag]
                         ELSE svc.zones]
    /\ UNCHANGED <<apiVars, boot>>

\* (mutant) a decorator that never finds the value in the cache.
CacheMiss_Always(cache, attr) == TRUE

\* self.cache.__getattribute__(attr) is None
CacheMiss(cache, attr) == cache[attr] = None

\* The calls of the method of `attr` that await its body.
InFlight(s, attr) ==
    {t \in Tasks : s.tasks[t].pc # "idle" /\ s.tasks[t].attr = attr}

\* The call `returned` has returned: it is the last one, its value is the
\* first of its attribute if there was none, and the settled one if no
\* other call of the method is still awaiting its body.
Finish(s, returned) ==
    [s EXCEPT
        !.ret = returned,
        !.first[returned.attr] = IF @ = None THEN returned.value ELSE @,
        !.settled[returned.attr] =
            IF InFlight(s, returned.attr) = {} THEN returned.value ELSE @]

\* wrapped(self, *args) up to `await fn(...)`, or to the return of the
\* cached value when there is one.
CallStart(t, attr, arg) ==
    /\ svc.tasks[t].pc = "idle"
    /\ LET call(pc) ==
               Task(pc, attr, arg, svc.first[attr], svc.settled[attr])
       IN
       IF ~svc.hasCache
       THEN svc' = [svc EXCEPT !.tasks[t] = call("await_uncached")]
       ELSE IF CacheMiss(svc.cache, attr)
       THEN svc' = [svc EXCEPT !.tasks[t] = call("await_miss")]
       ELSE svc' = Finish(svc, Returned("call", t, call("idle"), FALSE,
                                        svc.cache[attr]))
    /\ UNCHANGED <<apiVars, boot>>

\* fn(...) completes with `value`: wrapped stores it in the cache if it
\* came here on a miss, and returns.
CallFinish(t) ==
    /\ svc.tasks[t].pc # "idle"
    /\ \E value \in Values \cup {None} :
        LET call == svc.tasks[t]
            cache == IF call.pc = "await_miss"
                     THEN [svc.cache EXCEPT ![call.attr] = value]
                     ELSE svc.cache
            out == IF call.pc = "await_miss" THEN cache[call.attr]
                   ELSE value
        IN svc' = Finish([svc EXCEPT !.cache = cache,
                                     !.tasks[t] = NoTask],
                         Returned("call", t, call, TRUE, out))
    /\ UNCHANGED <<apiVars, boot>>

\* ServiceCache.clear(): every attribute is None again.
ClearCache ==
    /\ svc.hasCache
    /\ svc' = [svc EXCEPT
           !.cache = [a \in Attrs |-> None],
           !.first = [a \in Attrs |-> None],
           !.settled = [a \in Attrs |-> None],
           !.ret = Returned("clear", None, NoTask, FALSE, None)]
    /\ UNCHANGED <<apiVars, boot>>

\* A worker's accept request: the ids it names, the rows its query fetched
\* (rows), where the handler stands (pc) and, once pc = "done", its outcome
\* and the ids it returns (ret).
AcceptCall(system_ids, rows, pc, result, ret) ==
    [op |-> "accept", ids |-> system_ids, rows |-> rows, pc |-> pc,
     result |-> result, ret |-> ret]

\* NodesHandler.accept up to the return of get_nodes and the permission
\* check on what it returned.
AcceptRead(w, system_ids) ==
    LET existing_ids == DOMAIN nodes IN
    /\ calls[w].pc = "idle"
    /\ IF AcceptUnknownCheck(existing_ids, system_ids)
       THEN calls' = [calls EXCEPT ![w] =
                AcceptCall(system_ids, <<>>, "done", "MAASAPIBadRequest",
                           system_ids \ existing_ids)]
       ELSE \E denied \in SUBSET (system_ids \cap existing_ids) :
            LET ids == (system_ids \cap existing_ids) \ denied IN
            calls' = [calls EXCEPT ![w] =
                IF AcceptDeniedCheck(ids, system_ids)
                THEN AcceptCall(system_ids, <<>>, "done",
                                "PermissionDenied", system_ids \ ids)
                ELSE AcceptCall(system_ids, [i \in ids |-> nodes[i]],
                                "accept_save", "", {})]
    /\ UNCHANGED <<nodes, now, last, prev, macs, prevMacs, sent, boot, svc>>

\* The table after accept_enlistment saved the fetched rows of S.
AcceptSaved(store, rows, S, t) ==
    [j \in DOMAIN store \cup S |->
        IF j \in S
        THEN [AcceptNode(rows[j]) EXCEPT !.updated = t]
        ELSE store[j]]

\* node.accept_enlistment(request.user) on each fetched row, and the
\* return of the nodes it changed.
AcceptSave(w) ==
    /\ calls[w].pc = "accept_save"
    /\ LET rows == calls[w].rows
           raising == {i \in DOMAIN rows : AcceptRaises(rows[i])}
           declared == {i \in DOMAIN rows : AcceptChanges(rows[i])}
       IN
       IF raising = {}
       THEN /\ nodes' = AcceptSaved(nodes, rows, declared, now)
            /\ calls' = [calls EXCEPT ![w].pc = "done", ![w].result = "ok",
                                      ![w].ret = declared]
       ELSE \E before \in SUBSET declared :
            /\ nodes' = AcceptSaved(nodes, rows, before, now)
            /\ calls' = [calls EXCEPT ![w].pc = "done",
                                      ![w].result = "NodeStateViolation"]
    /\ UNCHANGED <<now, last, prev, macs, prevMacs, sent, boot, svc>>

\* ------------------------------------------------------------------- init
\* The rows a table can hold at clock reading t: a row has an owner exactly
\* in the statuses acquire leaves it in. Only a Commissioning row's `updated`
\* is ever read: such a row was written at any time up to t, every other
\* row at t.
InitRows(i, t) ==
    {NodeRec(st, NoOwner, HostnameOf(i), t) :
        st \in NODE_STATUS \ (OwnedStatus \cup {COMMISSIONING})}
    \cup {NodeRec(st, ow, HostnameOf(i), t) :
            st \in OwnedStatus, ow \in Users}
    \cup {NodeRec(COMMISSIONING, NoOwner, HostnameOf(i), up) : up \in 0..t}

Stores(t) ==
    {s \in UNION {[S -> UNION {InitRows(i, t) : i \in S}] :
                     S \in SUBSET Ids} :
        \A i \in DOMAIN s : s[i] \in InitRows(i, t)}

Init ==
    /\ now = COMMISSIONING_TIMEOUT
    /\ nodes \in Stores(COMMISSIONING_TIMEOUT)
    /\ last = NoResp
    /\ prev = nodes
    /\ calls = [w \in Workers |-> NoCall]
    /\ macs = EmptyBag
    /\ prevMacs = macs
    /\ sent = {}
    /\ boot = BootInit
    /\ svc = NoSvc

Next ==
    \/ \E i \in RequestIds : Release(i)
    \/ \E u \in Users, name \in Names : Acquire(u, name)
    \/ \E system_ids \in SUBSET RequestIds : Accept(system_ids)
    \/ \E u \in Users : New(u)
    \/ AnonNew
    \/ \E i \in RequestIds : Delete(i)
    \/ \E i \in RequestIds : Start(i)
    \/ \E i \in RequestIds : Stop(i)
    \/ CheckCommissioning
    \/ Reply

Spec == Init /\ [][Next]_vars

\* The tables SpecLinks starts from: nodes in some of the statuses, among
\* them Retired; the links are made by the requests.
LinkRows(i) ==
    {NodeRec(st, NoOwner, HostnameOf(i), COMMISSIONING_TIMEOUT) :
        st \in {READY, RETIRED}}
    \cup {NodeRec(ALLOCATED, "alice", HostnameOf(i), COMMISSIONING_TIMEOUT)}

InitLinks ==
    /\ Init
    /\ \A i \in DOMAIN nodes : nodes[i] \in LinkRows(i)

NextLinks ==
    \/ \E i \in RequestIds, mac \in MacInputs : AddMac(i, mac)
    \/ \E i \in RequestIds, mac \in MacInputs : RemoveMac(i, mac)
    \/ \E mac \in MacInputs : IsRegistered(mac)
    \/ \E i \in RequestIds, hostname \in Hostnames : Update(i, hostname)
    \/ \E match_ids \in MatchLists : List(match_ids)
    \/ \E i \in RequestIds : Delete(i)
    \/ \E i \in RequestIds : Start(i)
    \/ \E i \in RequestIds : Stop(i)
    \/ Reply

SpecLinks == InitLinks /\ [][NextLinks]_vars

\* The clock between two requests.
Tick ==
    /\ Idle
    /\ now < MaxTime
    /\ now' = now + 1
    /\ UNCHANGED <<nodes, last, prev, calls, macs, prevMacs, sent, boot, svc>>

\* The tables SpecSweep starts from, at clock reading 0.
SweepRows(i) ==
    {NodeRec(st, NoOwner, HostnameOf(i), 0) :
        st \in {COMMISSIONING, FAILED_TESTS, READY}}

InitSweep ==
    /\ now = 0
    /\ nodes \in UNION {[S -> UNION {SweepRows(i) : i \in S}] :
                            S \in SUBSET Ids}
    /\ \A i \in DOMAIN nodes : nodes[i] \in SweepRows(i)
    /\ last = NoResp
    /\ prev = nodes
    /\ calls = [w \in Workers |-> NoCall]
    /\ macs = EmptyBag
    /\ prevMacs = macs
    /\ sent = {}
    /\ boot = BootInit
    /\ svc = NoSvc

NextSweep ==
    \/ Tick
    \/ CheckCommissioning
    \/ \E i \in RequestIds, hostname \in Hostnames : Update(i, hostname)
    \/ Reply

SpecSweep == InitSweep /\ [][NextSweep]_vars

\* The tables SpecSweepFair starts from.
SweepFairRows(i) ==
    {NodeRec(st, NoOwner, HostnameOf(i), 0) : st \in {COMMISSIONING, READY}}

InitSweepFair ==
    /\ InitSweep
    /\ \A i \in DOMAIN nodes : nodes[i] \in SweepFairRows(i)

\* The requests in between are updates, which refresh `updated`.
NextSweepFair ==
    \/ Tick
    \/ CheckCommissioning
    \/ \E i \in Ids : Update(i, HostnameOf(i))
    \/ Reply

\* Time goes by and the sweep is run again and again, whatever requests
\* are served in between; every response goes out.
SpecSweepFair ==
    /\ InitSweepFair
    /\ [][NextSweepFair]_vars
    /\ SF_vars(Tick)
    /\ SF_vars(CheckCommissioning)
    /\ WF_vars(Reply)

\* The tables SpecFrame starts from: the nodes of SpecSweep, each MAC
\* address linked to at most one of them.
InitFrame ==
    /\ now = 0
    /\ nodes \in UNION {[S -> UNION {SweepRows(i) : i \in S}] :
                            S \in SUBSET Ids}
    /\ \A i \in DOMAIN nodes : nodes[i] \in SweepRows(i)
    /\ last = NoResp
    /\ prev = nodes
    /\ calls = [w \in Workers |-> NoCall]
    /\ \E linked \in SUBSET Macs : \E of \in [linked -> DOMAIN nodes] :
        macs = SetToBag({Link(mac, of[mac]) : mac \in linked})
    /\ prevMacs = macs
    /\ sent = {}
    /\ boot = BootInit
    /\ svc = NoSvc

NextFrame ==
    \/ Tick
    \/ CheckCommissioning
    \/ Reply

SpecFrame == InitFrame /\ [][NextFrame]_vars

NextConc ==
    \/ \E w \in Workers, u \in Users, name \in Names : AcquireRead(w, u, name)
    \/ \E w \in Workers : AcquireSave(w)
    \/ \E w \in Workers, i \in RequestIds : ReleaseRead(w, i)
    \/ \E w \in Workers : ReleaseSave(w)

SpecConc == Init /\ [][NextConc]_vars

\* The tables SpecAccept starts from.
AcceptRows(i) ==
    {NodeRec(st, NoOwner, HostnameOf(i), COMMISSIONING_TIMEOUT) :
        st \in {DECLARED, READY, RETIRED}}

InitAccept ==
    /\ Init
    /\ \A i \in DOMAIN nodes : nodes[i] \in AcceptRows(i)

\* Two accept requests served at once, each by a worker.
NextAccept ==
    \/ \E w \in Workers, system_ids \in SUBSET RequestIds :
        AcceptRead(w, system_ids)
    \/ \E w \in Workers : AcceptSave(w)

SpecAccept == InitAccept /\ [][NextAccept]_vars

\* The worker has returned its response and is free for the next request.
Return(w) ==
    /\ calls[w].pc = "done"
    /\ calls' = [calls EXCEPT ![w] = NoCall]
    /\ UNCHANGED <<nodes, now, last, prev, macs, prevMacs, sent, boot, svc>>

\* The tables SpecSerial starts from.
SerialRows(i) ==
    {NodeRec(READY, NoOwner, HostnameOf(i), COMMISSIONING_TIMEOUT),
     NodeRec(ALLOCATED, "alice", HostnameOf(i), COMMISSIONING_TIMEOUT)}

InitSerial ==
    /\ Init
    /\ \A i \in DOMAIN nodes : nodes[i] \in SerialRows(i)

NextSerial ==
    \/ \E w \in Workers, u \in Users : AcquireRead(w, u, NoName)
    \/ \E w \in Workers : AcquireSave(w)
    \/ \E w \in Workers, i \in RequestIds : ReleaseRead(w, i)
    \/ \E w \in Workers : ReleaseSave(w)
    \/ \E w \in Workers : Return(w)

SpecSerial == InitSerial /\ [][NextSerial]_vars

\* The processes of a region starting up; the node API is not serving yet.
ApiOff ==
    /\ now = COMMISSIONING_TIMEOUT
    /\ nodes = [i \in {} |-> NoRow]
    /\ last = NoResp
    /\ prev = nodes
    /\ calls = [w \in Workers |-> NoCall]
    /\ macs = EmptyBag
    /\ prevMacs = macs
    /\ sent = {}

InitStartUp ==
    /\ ApiOff
    /\ boot = BootInit
    /\ svc = NoSvc

NextStartUp ==
    \/ \E p \in Procs : GetSharedSecret(p)
    \/ \E p \in Procs : EnterInner(p)
    \/ \E p \in Procs : InnerStep(p)
    \/ \E p \in Procs : PauseTick(p)
    \/ \E p \in Procs : Retry(p)

SpecStartUp == InitStartUp /\ [][NextStartUp]_vars

\* The reactor runs every process's next callback, fires its pause timer
\* and hands the lock to a process that waits for it.
StartUpStep(p) ==
    \/ GetSharedSecret(p)
    \/ EnterInner(p)
    \/ InnerStep(p)
    \/ PauseTick(p)
    \/ Retry(p)

SpecStartUpFair ==
    SpecStartUp /\ \A p \in Procs : WF_vars(StartUpStep(p))

\* A service over some zones, serving one request at a time.
InitZones ==
    /\ ApiOff
    /\ boot = BootInit
    /\ \E S \in SUBSET ZoneIds : \E zones \in [S -> Etags] :
        svc = Svc(zones, FALSE)

NextZones ==
    \/ \E id \in ZoneIds, etag_if_match \in Etags \cup {None} :
        ZoneDelete(id, etag_if_match)
    \/ \E id \in ZoneIds, etag_if_match \in Etags \cup {None} :
        ZoneUpdate(id, etag_if_match)

SpecZones == InitZones /\ [][NextZones]_vars

\* A service built with or without a cache; its tasks call the cached
\* methods and interleave where a method awaits its body.
InitCache ==
    /\ ApiOff
    /\ boot = BootInit
    /\ \E hasCache \in BOOLEAN : svc = Svc([z \in {} |-> None], hasCache)

NextCache ==
    \/ \E t \in Tasks, attr \in Attrs, arg \in Args : CallStart(t, attr, arg)
    \/ \E t \in Tasks : CallFinish(t)
    \/ ClearCache

SpecCache == InitCache /\ [][NextCache]_vars

\* ================================================================ claims
\* The rows of `store` other than row i are the rows of `other`.
SameExcept(store, other, i) ==
    /\ DOMAIN store = DOMAIN other
    /\ \A j \in DOMAIN store \ {i} : store[j] = other[j]

\* The release handler got as far as the row: the id is known and the
\* authorization collaborator let the actor edit the node.
ReleaseReached(i) ==
    /\ last.op = "release"
    /\ last.id = i
    /\ i \in DOMAIN prev
    /\ last.result # "PermissionDenied"

\* C1: no node is returned by two acquire calls that each found it Ready,
\* and a node an acquire call has just returned is owned by that call's
\* requester.
C1_AcquireExclusive ==
    /\ \A w1 \in Workers : \A w2 \in Workers \ {w1} :
        (/\ calls[w1].op = "acquire" /\ calls[w1].result = "ok"
         /\ calls[w2].op = "acquire" /\ calls[w2].result = "ok")
        => calls[w1].id # calls[w2].id
    /\ \A w \in Workers :
        (/\ calls[w].op = "acquire" /\ calls[w].result = "ok"
         /\ \A v \in Workers \ {w} : calls[v].op = "acquire")
        => nodes[calls[w].id].owner = calls[w].user

\* C2: of two acquire calls served at once by a fleet in which exactly one
\* Ready node matches their constraints (and is visible to both), one
\* returns that node, which is then Allocated, and the other fails with
\* NodesNotAvailable.
C2_OneAcquireWins ==
    \A w1 \in Workers : \A w2 \in Workers \ {w1} : \A i \in Ids :
        (/\ \A w \in {w1, w2} :
                /\ calls[w].op = "acquire"
                /\ calls[w].pc = "done"
                /\ calls[w].result # "Unauthorized"
                /\ calls[w].hidden = {}
                /\ {j \in DOMAIN prev :
                        /\ prev[j].status = READY
                        /\ (calls[w].name = NoName
                            \/ prev[j].hostname = calls[w].name)} = {i})
        => /\ {calls[w1].result, calls[w2].result}
                = {"ok", "NodesNotAvailable"}
           /\ nodes[i].status = ALLOCATED

\* C3: every node has an owner exactly when it is Allocated or Reserved.
C3_OwnerIffAllocated ==
    \A i \in DOMAIN nodes :
        (nodes[i].owner # NoOwner) <=> (nodes[i].status \in {ALLOCATED, RESERVED})

C3_Witness ==
    /\ last.op = "release"
    /\ last.result = "ok"
    /\ prev[last.id].status = ALLOCATED
    /\ \E j \in DOMAIN nodes : nodes[j].status = RESERVED

\* C4: a successful acquire returns a node that was Ready, visible to the
\* requester and matching the name constraint (any node without one); the
\* node is then Allocated and owned by the requester, and no other node has
\* changed.
C4_AcquireSuccess ==
    (last.op = "acquire" /\ last.result = "ok") =>
        /\ last.ret = {last.id}
        /\ last.id \in DOMAIN prev
        /\ prev[last.id].status = READY
        /\ last.id \notin last.hidden
        /\ last.name = NoName \/ prev[last.id].hostname = last.name
        /\ nodes[last.id].status = ALLOCATED
        /\ nodes[last.id].owner = last.user
        /\ nodes[last.id].hostname = prev[last.id].hostname
        /\ SameExcept(nodes, prev, last.id)

C4_Witness ==
    /\ last.op = "acquire"
    /\ last.result = "ok"
    /\ last.name # NoName
    /\ \E j \in DOMAIN prev \ {last.id} : prev[j].status = READY

\* C5: acquire fails with NodesNotAvailable exactly when no Ready node that
\* is visible to the requester matches the constraints, and then the table
\* is unchanged.
C5_AcquireNotAvailable ==
    last.op = "acquire" =>
        /\ (last.result = "NodesNotAvailable")
            <=> ({j \in DOMAIN prev \ last.hidden :
                    /\ prev[j].status = READY
                    /\ (last.name = NoName \/ prev[j].hostname = last.name)}
                 = {})
        /\ last.result = "NodesNotAvailable" => nodes = prev

C5_Witness ==
    /\ last.op = "acquire"
    /\ last.result = "NodesNotAvailable"
    /\ last.hidden = {}
    /\ \E j \in DOMAIN prev : prev[j].status = READY

\* C6: release of a Ready node succeeds and changes nothing, and a release
\* that succeeded leaves the node Ready without owner: the retry of a
\* release succeeds again and changes nothing.
C6_ReleaseIdempotent ==
    \A i \in Ids :
        ReleaseReached(i) =>
            /\ prev[i].status = READY
                => (last.result = "ok" /\ nodes = prev)
            /\ last.result = "ok"
                => (/\ i \in DOMAIN nodes
                    /\ nodes[i].status = READY
                    /\ nodes[i].owner = NoOwner)

C6_Witness ==
    /\ last.op = "release"
    /\ last.result = "ok"
    /\ last.id \in DOMAIN prev
    /\ prev[last.id].status = READY
    /\ nodes = prev

\* C7: release of an Allocated or Reserved node succeeds, clears its owner
\* and makes it Ready; no other node changes.
C7_ReleaseFrees ==
    \A i \in Ids :
        (ReleaseReached(i) /\ prev[i].status \in {ALLOCATED, RESERVED}) =>
            /\ last.result = "ok"
            /\ nodes[i].status = READY
            /\ nodes[i].owner = NoOwner
            /\ SameExcept(nodes, prev, i)

C7_Witness ==
    /\ last.op = "release"
    /\ last.result = "ok"
    /\ last.id \in DOMAIN prev
    /\ prev[last.id].status = RESERVED
    /\ prev[last.id].owner = "alice"
    /\ Cardinality(DOMAIN prev) = MaxNodes

\* C8: release of a Declared, Commissioning, FailedTests or Retired node
\* fails with NodeStateViolation, which shows the node's status, and the
\* table is unchanged.
C8_ReleaseRefuses ==
    \A i \in Ids :
        (/\ ReleaseReached(i)
         /\ prev[i].status \in {DECLARED, COMMISSIONING, FAILED_TESTS, RETIRED})
        => /\ last.result = "NodeStateViolation"
           /\ last.msg = prev[i].status
           /\ nodes = prev

C8_Witness ==
    /\ last.op = "release"
    /\ last.result = "NodeStateViolation"
    /\ prev[last.id].status = COMMISSIONING

\* C9: accept by an actor with admin capability on a batch of Declared and
\* already Ready nodes succeeds, returns the ids of the nodes that were
\* Declared, and leaves every node of the batch Ready and every other node
\* as it was.
C9_AcceptMixedBatch ==
    (/\ last.op = "accept"
     /\ last.ids \subseteq DOMAIN prev
     /\ last.hidden = {}
     /\ \A i \in last.ids : prev[i].status \in {DECLARED, READY})
    => /\ last.result = "ok"
       /\ last.ret = {i \in last.ids : prev[i].status = DECLARED}
       /\ DOMAIN nodes = DOMAIN prev
       /\ \A i \in last.ids :
            /\ nodes[i].status = READY
            /\ nodes[i].owner = NoOwner
       /\ \A j \in DOMAIN prev \ last.ids : nodes[j] = prev[j]

C9_Witness ==
    /\ last.op = "accept"
    /\ last.result = "ok"
    /\ \E i \in last.ids : prev[i].status = DECLARED
    /\ \E i \in last.ids : prev[i].status = READY

\* C10: accept on a batch with an id of no existing node fails with
\* MAASAPIBadRequest naming exactly the unknown ids, whatever the size of the
\* fleet, and the table is unchanged.
C10_AcceptUnknownIds ==
    (last.op = "accept" /\ last.ids \ DOMAIN prev # {}) =>
        /\ last.result = "MAASAPIBadRequest"
        /\ last.ret = last.ids \ DOMAIN prev
        /\ nodes = prev

\* C11: accept on a batch of existing nodes of which the actor may not
\* administer at least one fails with PermissionDenied naming exactly the
\* denied ids, and the table is unchanged.
C11_AcceptDenied ==
    (/\ last.op = "accept"
     /\ last.ids \subseteq DOMAIN prev
     /\ last.hidden # {})
    => /\ last.result = "PermissionDenied"
       /\ last.ret = last.hidden
       /\ nodes = prev

C11_Witness ==
    /\ last.op = "accept"
    /\ last.result = "PermissionDenied"
    /\ Cardinality(last.ids) = 2
    /\ Cardinality(last.hidden) = 1
    /\ \E i \in last.ids \ last.hidden : prev[i].status = DECLARED

\* The edge table of the transition engine: source -> targets.
EdgeTable ==
    {<<DECLARED, COMMISSIONING>>, <<DECLARED, RETIRED>>,
     <<COMMISSIONING, READY>>, <<COMMISSIONING, FAILED_TESTS>>,
     <<FAILED_TESTS, COMMISSIONING>>, <<FAILED_TESTS, RETIRED>>,
     <<READY, ALLOCATED>>, <<READY, RETIRED>>,
     <<ALLOCATED, READY>>, <<ALLOCATED, RETIRED>>,
     <<RESERVED, READY>>, <<RESERVED, RETIRED>>}

\* The operations that work record by record.
SingleRecordOps == {"new", "anon_new", "accept", "acquire", "release"}

\* The status the last request found node i in: a node it created starts
\* Declared.
StatusBefore(i) == IF i \in DOMAIN prev THEN prev[i].status ELSE DECLARED

\* Every status change the last request made is an edge of `table`.
FollowsEdges(table) ==
    last.op \in SingleRecordOps =>
        \A i \in DOMAIN nodes :
            nodes[i].status # StatusBefore(i)
                => <<StatusBefore(i), nodes[i].status>> \in table

FrameOps ==
    {"update", "add_mac", "remove_mac", "start", "stop", "list",
     "is_registered"}

\* C13: update, add_mac, remove_mac, start, stop, list and is_registered
\* leave the status and the owner of every node as they were, and neither
\* make nor remove a node.
C13_StatusFrame ==
    last.op \in FrameOps =>
        /\ DOMAIN nodes = DOMAIN prev
        /\ \A i \in DOMAIN nodes :
            /\ nodes[i].status = prev[i].status
            /\ nodes[i].owner = prev[i].owner

C13_Witness ==
    /\ last.op = "update"
    /\ last.result = "ok"
    /\ prev[last.id].status = ALLOCATED
    /\ nodes[last.id].hostname # prev[last.id].hostname
    /\ macs # EmptyBag

\* C14: after a sweep at clock reading `now`, every node that was
\* Commissioning with updated <= now - COMMISSIONING_TIMEOUT (the boundary
\* included) is FailedTests, and every node that was Commissioning with a
\* later `updated` is still Commissioning.
C14_SweepBoundary ==
    last.op = "check_commissioning" =>
        \A i \in DOMAIN prev :
            prev[i].status = COMMISSIONING =>
                /\ i \in DOMAIN nodes
                /\ prev[i].updated <= now - COMMISSIONING_TIMEOUT
                    => nodes[i].status = FAILED_TESTS
                /\ prev[i].updated > now - COMMISSIONING_TIMEOUT
                    => nodes[i].status = COMMISSIONING

C14_Witness ==
    /\ last.op = "check_commissioning"
    /\ \E i \in DOMAIN prev :
        /\ prev[i].status = COMMISSIONING
        /\ prev[i].updated = now - COMMISSIONING_TIMEOUT
        /\ nodes[i].status = FAILED_TESTS
    /\ \E j \in DOMAIN prev :
        /\ prev[j].status = COMMISSIONING
        /\ prev[j].updated > now - COMMISSIONING_TIMEOUT
        /\ nodes[j].status = COMMISSIONING

\* C15: a successful enlistment makes exactly one new node, without owner,
\* and changes no other; the node is Ready when an admin enlisted it and
\* Declared when a non-admin or an anonymous actor did; a Declared node that
\* is still there is Declared after every request but an accept that names
\* it.
C15_Enlist ==
    /\ (last.op \in {"new", "anon_new"} /\ last.result = "ok") =>
        /\ last.id \notin DOMAIN prev
        /\ DOMAIN nodes = DOMAIN prev \cup {last.id}
        /\ \A j \in DOMAIN prev : nodes[j] = prev[j]
        /\ nodes[last.id].owner = NoOwner
        /\ nodes[last.id].status =
                IF last.op = "new" /\ last.user = "admin"
                THEN READY ELSE DECLARED
    /\ \A i \in DOMAIN prev \cap DOMAIN nodes :
        (prev[i].status = DECLARED /\ nodes[i].status # DECLARED)
            => (last.op = "accept" /\ i \in last.ids)

C15_Witness ==
    /\ last.op = "new"
    /\ last.user = "alice"
    /\ last.result = "ok"
    /\ nodes[last.id].status = DECLARED
    /\ \E j \in DOMAIN prev : prev[j].status = DECLARED

\* C16: is_registered(mac) answers true exactly when a link with that
\* address is on a node that is not Retired (so not when the node is Retired
\* or deleted, or the link removed), and it changes neither table.
C16_IsRegistered ==
    last.op = "is_registered" =>
        /\ last.result \in {"true", "false"}
        /\ (last.result = "true")
            <=> (\E l \in BagToSet(prevMacs) :
                    /\ l.mac = last.mac
                    /\ l.node \in DOMAIN prev
                    /\ prev[l.node].status # RETIRED)
        /\ nodes = prev
        /\ macs = prevMacs

C16_Witness ==
    /\ last.op = "is_registered"
    /\ last.result = "false"
    /\ \E l \in BagToSet(macs) :
        /\ l.mac = last.mac
        /\ nodes[l.node].status = RETIRED
    /\ \E l \in BagToSet(macs) :
        /\ l.mac # last.mac
        /\ nodes[l.node].status # RETIRED

C19_ReleaseSerialized ==
    [][\A w \in Workers :
        (/\ calls[w].pc = "release_save"
         /\ calls'[w].pc = "done"
         /\ nodes[calls[w].id].status = ALLOCATED)
        => nodes[calls[w].id].owner = calls[w].row.owner]_vars

\* C20: an acquire call whose attempts all lose to concurrent acquirers ends
\* with NodesNotAvailable: a call that ends when the node it chose has been
\* taken and no other candidate is left does not end in success.
C20_AcquireLosesCleanly ==
    [][\A w \in Workers :
        (/\ calls[w].op = "acquire"
         /\ calls[w].pc # "done"
         /\ calls'[w].pc = "done"
         /\ calls[w].id \in DOMAIN nodes
         /\ nodes[calls[w].id].status # READY
         /\ Candidates(nodes, calls[w].hidden, calls[w].name) = {})
        => calls'[w].result = "NodesNotAvailable"]_vars

\* C21: acquire chooses its node by a deterministic rule: two acquire calls
\* that query the same table for the same requester with the same
\* constraints, the same nodes being visible, choose the same node.
C21_AcquireDeterministic ==
    \A w1 \in Workers : \A w2 \in Workers \ {w1} :
        (/\ nodes = prev
         /\ \A w \in {w1, w2} :
                /\ calls[w].op = "acquire"
                /\ calls[w].pc = "acquire_save"
         /\ calls[w1].user = calls[w2].user
         /\ calls[w1].name = calls[w2].name
         /\ calls[w1].hidden = calls[w2].hidden)
        => calls[w1].id = calls[w2].id

\* C22: when several processes run start_up(), their executions of
\* inner_start_up exclude one another: at most one process is inside it at
\* a time, and that process holds the start-up lock.
C22_InnerStartUpExclusive ==
    /\ Cardinality({p \in Procs : boot.pc[p] \in InnerPcs}) <= 1
    /\ \A p \in Procs : boot.pc[p] \in InnerPcs => boot.lock = p

\* One process is inside inner_start_up while the other waits for the lock.
C22_Witness ==
    \E p \in Procs : \E q \in Procs \ {p} :
        /\ boot.pc[p] \in InnerPcs
        /\ boot.lock = p
        /\ boot.pc[q] = "inner_start_up"

\* C29: start_up() returns only after a loop iteration in which both
\* get_shared_secret and inner_start_up completed; a DatabaseError or any
\* other caught exception puts the process into a pause of PauseSeconds,
\* which ends only when the seconds are over and then leads to a new
\* iteration that starts from get_shared_secret; SystemExit and
\* KeyboardInterrupt end start_up() at once; and once the failures have
\* stopped every pause is followed by a new attempt and every process that
\* is not interrupted returns.
C29_StartUpRetries ==
    /\ [](\A p \in Procs :
            boot.pc[p] = "returned" => boot.done[p] = LoopCalls)
    /\ [][\A p \in Procs :
            /\ (boot'.failures # boot.failures /\ boot'.pc[p] # boot.pc[p])
                => /\ boot'.pc[p] = "pause"
                   /\ boot'.wait[p] = PauseSeconds
                   /\ boot'.exc[p] \in Caught
            /\ (boot.pc[p] = "pause" /\ boot'.pc[p] # "pause")
                => /\ boot.wait[p] = 0
                   /\ boot'.pc[p] = "loop"
                   /\ boot'.done[p] = {}
            /\ (boot'.pc[p] = "exited" /\ boot.pc[p] # "exited")
                => boot'.exc[p] \in Interrupts
            /\ boot.pc[p] \in {"returned", "exited"}
                => boot'.pc[p] = boot.pc[p]]_vars
    /\ \A p \in Procs : (boot.pc[p] = "pause") ~> (boot.pc[p] = "loop")
    /\ \A p \in Procs : <>(boot.pc[p] \in {"returned", "exited"})

\* A process has returned from start_up() after an attempt of its own
\* failed with a caught exception.
C29_Witness ==
    \E p \in Procs :
        /\ boot.pc[p] = "returned"
        /\ boot.exc[p] \in Caught
        /\ boot.done[p] = LoopCalls

C30_CachedValueSticks ==
    svc.ret.op = "call"
    => /\ (svc.hasCache /\ svc.ret.before # None)
           => (~svc.ret.executed /\ svc.ret.value = svc.ret.before)
       /\ (svc.hasCache /\ svc.ret.before = None) => svc.ret.executed
       /\ ~svc.hasCache => svc.ret.executed

\* C30 (amended): on a service with a cache, once a call of a cached
\* method has returned a value v that is not None while no other call of
\* the method was awaiting its body, every call made later returns v
\* without executing the body, until the cache is cleared; a call made
\* when no value was returned since the cache was cleared executes the
\* body; on a service without cache every call executes the body.
C30_SettledValueSticks ==
    svc.ret.op = "call"
    => /\ (svc.hasCache /\ svc.ret.settled # None)
           => (~svc.ret.executed /\ svc.ret.value = svc.ret.settled)
       /\ (svc.hasCache /\ svc.ret.before = None) => svc.ret.executed
       /\ ~svc.hasCache => svc.ret.executed

\* A call made with another argument than the one that was served before
\* it has returned the settled value without executing the body.
C30_Witness ==
    /\ svc.hasCache
    /\ svc.ret.op = "call"
    /\ svc.ret.settled # None
    /\ ~svc.ret.executed
    /\ svc.ret.value = svc.ret.settled
    /\ svc.ret.arg = "y"

\* C24: accept on a batch with a node that is neither Declared nor Ready
\* fails with an error and changes the status of no node of the batch, the
\* Declared nodes handled before the offending one included.
C24_AcceptAtomic ==
    (/\ last.op = "accept"
     /\ last.ids \subseteq DOMAIN prev
     /\ last.hidden = {}
     /\ \E i \in last.ids : prev[i].status \notin {DECLARED, READY})
    => /\ last.result = "NodeStateViolation"
       /\ DOMAIN nodes = DOMAIN prev
       /\ \A i \in last.ids : nodes[i].status = prev[i].status

\* C25: the commissioning sweep changes nothing but the status of the
\* Commissioning nodes whose `updated` is at or before the cutoff: their
\* owner, their `updated` and the rest of their row stay, every other node
\* stays as it was, no node appears or disappears, and every link stays.
C25_SweepFrame ==
    last.op = "check_commissioning" =>
        /\ DOMAIN nodes = DOMAIN prev
        /\ macs = prevMacs
        /\ \A i \in DOMAIN prev :
            nodes[i] # prev[i] =>
                /\ prev[i].status = COMMISSIONING
                /\ prev[i].updated <= now - COMMISSIONING_TIMEOUT
                /\ nodes[i] = [prev[i] EXCEPT !.status = FAILED_TESTS]

\* The sweep has failed a node that has a link, next to a node in another
\* status.
C25_Witness ==
    /\ last.op = "check_commissioning"
    /\ \E i \in DOMAIN prev :
        /\ prev[i].status = COMMISSIONING
        /\ nodes[i].status = FAILED_TESTS
        /\ nodes[i].updated = prev[i].updated
        /\ nodes[i].updated < now
        /\ \E l \in BagToSet(macs) : l.node = i
    /\ \E j \in DOMAIN prev : prev[j].status = READY

\* C26: the Declared -> Ready transition of accept is applied at most once
\* to a node: of two accept calls that name the same Declared node and
\* succeed, exactly one returns the node's id among the changed ones.
C26_AcceptOnce ==
    \A w1 \in Workers : \A w2 \in Workers \ {w1} :
        (\A w \in {w1, w2} :
            /\ calls[w].op = "accept"
            /\ calls[w].pc = "done"
            /\ calls[w].result = "ok")
        => \A i \in calls[w1].ids \cap calls[w2].ids :
            (i \in DOMAIN prev /\ prev[i].status = DECLARED)
            => /\ i \in calls[w1].ret \cup calls[w2].ret
               /\ i \notin calls[w1].ret \cap calls[w2].ret

\* C27: Retired is terminal: whatever request is served (accept, acquire,
\* release, start, stop, the sweep, an enlistment), a node that was Retired
\* is Retired afterwards with its row as it was, acquire does not return
\* it, and it is gone from the table only after a delete of that node.
C27_RetiredTerminal ==
    \A i \in DOMAIN prev :
        prev[i].status = RETIRED =>
            /\ i \in DOMAIN nodes => nodes[i] = prev[i]
            /\ i \notin DOMAIN nodes
                => (last.op = "delete" /\ last.id = i /\ last.result = "ok")
            /\ last.op = "acquire" => (last.id # i /\ i \notin last.ret)

\* An accept that names a Retired node has failed and the node is Retired.
C27_Witness ==
    /\ last.op = "accept"
    /\ last.result = "NodeStateViolation"
    /\ \E i \in last.ids \cap DOMAIN prev :
        /\ prev[i].status = RETIRED
        /\ last.id = i
        /\ nodes[i].status = RETIRED

\* C28: under a sweep that runs again and again, a Commissioning node
\* whose `updated` is not refreshed is eventually FailedTests, whatever
\* requests are served in between. (The clock of the model stops at
\* MaxTime: the nodes are those the timeout can still reach.)
C28_CommissioningEnds ==
    \A i \in Ids : \A u \in 0..(MaxTime - COMMISSIONING_TIMEOUT) :
        (/\ i \in DOMAIN nodes
         /\ nodes[i].status = COMMISSIONING
         /\ nodes[i].updated = u)
        ~> (/\ i \in DOMAIN nodes
            /\ \/ nodes[i].status = FAILED_TESTS
               \/ nodes[i].updated # u)

\* The sweep has failed a node that a request had refreshed before.
C28_Witness ==
    /\ last.op = "check_commissioning"
    /\ \E i \in DOMAIN prev :
        /\ prev[i].status = COMMISSIONING
        /\ prev[i].updated > 0
        /\ nodes[i].status = FAILED_TESTS

====
